---- MODULE Spec2Model ----
(***************************************************************************)
(* The route layer of the social-networking backend (src/server/routes.ts) *)
(* as a state machine.  One action per route handler; a step is one HTTP   *)
(* request served to completion (single-threaded-per-request handling).    *)
(* The concept modules the handlers call (Authing, Sessioning, Friending,  *)
(* Posting, Commenting, Scheduling) are operators named Concept_method.    *)
(***************************************************************************)
EXTENDS Integers, FiniteSets, Sequences, TLC

\* ---------------------------------------------------------------- bounds
\* ObjectIds ever generated, over accounts, posts, comments, events and friend
\* requests (an id is never handed out twice, so a deleted document's id
\* stays dead).
MaxOids == 3

\* ---------------------------------------------------------------- inputs
Sessions == {"s1", "s2"}
Names == {"a", "b"}
Passwords == {"p", "q"}
\* A post's or comment's payload (content together with its options).
Contents == {"x", "y"}
\* An event's name (its start and end times travel with it).
EventNames == {"x"}
\* z.enum(["focus", "social"])
EventTypes == {"focus", "social"}
\* The text "" is the one string z.string().min(1) refuses.
Empty == ""

\* An :id path parameter: 0 stands for a string `new ObjectId(id)` refuses.
IdParams == 0..(MaxOids - 1)
\* The :postId a comment is filed under: any ObjectId, or a refused string.
PostIdParams == {0, 1}

VARIABLES
  users,        \* Authing: live user id -> [username, password]
  nextUser,     \* number of user ObjectIds handed out
  session,      \* Sessioning: session -> {} (logged out) or {user id}
  posts,        \* Posting: live post id -> [author, content]
  nextPost,
  comments,     \* Commenting: live comment id -> [post, author, content]
  nextComment,
  events,       \* Scheduling: live event id -> [owner, name, type]
  nextEvent,
  friends,      \* Friending: friendship documents <<user1, user2>>
  requests,     \* Friending: request id -> [from, to, status]
  nextRequest,
  resp          \* outcome of the last request: "none", "ok" or "err"

authVars == <<users, nextUser>>
contentVars == <<posts, nextPost, comments, nextComment, events, nextEvent>>
friendVars == <<friends, requests, nextRequest>>
dataVars == <<authVars, contentVars, friendVars>>
vars == <<dataVars, session, resp>>

\* A collection holding no document.
EmptyMap == [x \in {} |-> x]

Init ==
  /\ users = EmptyMap
  /\ nextUser = 0
  /\ session = [s \in Sessions |-> {}]
  /\ posts = EmptyMap
  /\ nextPost = 0
  /\ comments = EmptyMap
  /\ nextComment = 0
  /\ events = EmptyMap
  /\ nextEvent = 0
  /\ friends = {}
  /\ requests = EmptyMap
  /\ nextRequest = 0
  /\ resp = "none"

\* ------------------------------------------------------------- utilities
\* The function f without key k.
Without(f, k) == [x \in DOMAIN f \ {k} |-> f[x]]
\* The function f with key k (new or old) bound to v.
With(f, k, v) == [x \in DOMAIN f \cup {k} |-> IF x = k THEN v ELSE f[x]]

\* The request threw: the framework answers with an error, nothing is stored.
Reject == resp' = "err" /\ UNCHANGED <<dataVars, session>>

\* `new ObjectId(id)` accepts the string.
IsObjectId(id) == id # 0

OidsCreated == nextUser + nextPost + nextComment + nextEvent + nextRequest

\* ------------------------------------------------------------ Sessioning
\* Sessioning.getUser(session) returns the user; it throws when logged out.
Sessioning_isLoggedIn(s) == session[s] # {}
Sessioning_getUser(s) == CHOOSE u \in session[s] : TRUE
\* Sessioning.isLoggedOut(session) throws when the session is bound.
Sessioning_isLoggedOut(s) == session[s] = {}
Sessioning_start(s, u) == [session EXCEPT ![s] = {u}]
Sessioning_end(s) == [session EXCEPT ![s] = {}]

\* --------------------------------------------------------------- Authing
Authing_exists(u) == u \in DOMAIN users
Authing_nameTaken(n) == \E u \in DOMAIN users : users[u].username = n
\* Authing.getUserByUsername(n)._id; it throws not-found when nameTaken fails.
Authing_idOf(n) == CHOOSE u \in DOMAIN users : users[u].username = n
\* Authing.authenticate(n, p) returns the user when the credentials match.
Authing_authenticates(n, p) ==
  \E u \in DOMAIN users : users[u].username = n /\ users[u].password = p
\* Authing.idsToUsernames over the map us
Authing_idsToUsernames(ids, us) ==
  {IF u \in DOMAIN us THEN us[u].username ELSE "DELETED_USER" : u \in ids}

\* Authing.delete(u): the accounts once the deletion went through.
Authing_delete(u) == Without(users, u)

\* ---------------------------------------------------------- user routes
getSessionUser(s) ==
  IF Sessioning_isLoggedIn(s) /\ Authing_exists(Sessioning_getUser(s))
  THEN resp' = "ok" /\ UNCHANGED <<dataVars, session>>
  ELSE Reject

getUsers ==
  resp' = "ok" /\ UNCHANGED <<dataVars, session>>

getUser(n) ==
  IF n # Empty /\ Authing_nameTaken(n)
  THEN resp' = "ok" /\ UNCHANGED <<dataVars, session>>
  ELSE Reject

\* createUser without the Sessioning.isLoggedOut(session) line.
createUser_anySession(s, n, p) ==
  IF ~Authing_nameTaken(n)
  THEN /\ OidsCreated < MaxOids
       /\ users' = With(users, nextUser + 1, [username |-> n, password |-> p])
       /\ nextUser' = nextUser + 1
       /\ resp' = "ok"
       /\ UNCHANGED <<contentVars, friendVars, session>>
  ELSE Reject

\* createUser asking for a logged-in session instead of a logged-out one.
createUser_whenLoggedIn(s, n, p) ==
  IF Sessioning_isLoggedIn(s) /\ ~Authing_nameTaken(n)
  THEN /\ OidsCreated < MaxOids
       /\ users' = With(users, nextUser + 1, [username |-> n, password |-> p])
       /\ nextUser' = nextUser + 1
       /\ resp' = "ok"
       /\ UNCHANGED <<contentVars, friendVars, session>>
  ELSE Reject

createUser(s, n, p) ==
  IF Sessioning_isLoggedOut(s) /\ ~Authing_nameTaken(n)
  THEN /\ OidsCreated < MaxOids
       /\ users' = With(users, nextUser + 1, [username |-> n, password |-> p])
       /\ nextUser' = nextUser + 1
       /\ resp' = "ok"
       /\ UNCHANGED <<contentVars, friendVars, session>>
  ELSE Reject

updateUsername(s, n) ==
  IF /\ Sessioning_isLoggedIn(s)
     /\ Authing_exists(Sessioning_getUser(s))
     /\ ~Authing_nameTaken(n)
  THEN /\ users' = [users EXCEPT ![Sessioning_getUser(s)].username = n]
       /\ resp' = "ok"
       /\ UNCHANGED <<nextUser, contentVars, friendVars, session>>
  ELSE Reject

updatePassword(s, currentPassword, newPassword) ==
  IF /\ Sessioning_isLoggedIn(s)
     /\ Authing_exists(Sessioning_getUser(s))
     /\ users[Sessioning_getUser(s)].password = currentPassword
  THEN /\ users' = [users EXCEPT ![Sessioning_getUser(s)].password = newPassword]
       /\ resp' = "ok"
       /\ UNCHANGED <<nextUser, contentVars, friendVars, session>>
  ELSE Reject

\* deleteUser without the Sessioning.end(session) line.
deleteUser_keepsSession(s) ==
  IF Sessioning_isLoggedIn(s)
  THEN /\ session' = session
       /\ \E deleted \in BOOLEAN :
            IF deleted
            THEN /\ users' = Authing_delete(Sessioning_getUser(s))
                 /\ resp' = "ok"
            ELSE /\ users' = users
                 /\ resp' = "err"
       /\ UNCHANGED <<nextUser, contentVars, friendVars>>
  ELSE Reject

\* Sessioning.end runs before Authing.delete is awaited; the deletion is a
\* database call that either removes the account or throws.
deleteUser(s) ==
  IF Sessioning_isLoggedIn(s)
  THEN /\ session' = Sessioning_end(s)
       /\ \E deleted \in BOOLEAN :
            IF deleted
            THEN /\ users' = Authing_delete(Sessioning_getUser(s))
                 /\ resp' = "ok"
            ELSE /\ users' = users
                 /\ resp' = "err"
       /\ UNCHANGED <<nextUser, contentVars, friendVars>>
  ELSE Reject

\* logIn starting the session for the named user whatever the password.
logIn_anyPassword(s, n, p) ==
  IF Authing_nameTaken(n)
  THEN /\ session' = Sessioning_start(s, Authing_idOf(n))
       /\ resp' = "ok"
       /\ UNCHANGED dataVars
  ELSE Reject

logIn(s, n, p) ==
  IF Authing_authenticates(n, p)
  THEN /\ session' = Sessioning_start(s, Authing_idOf(n))
       /\ resp' = "ok"
       /\ UNCHANGED dataVars
  ELSE Reject

logOut(s) ==
  /\ session' = Sessioning_end(s)
  /\ resp' = "ok"
  /\ UNCHANGED dataVars

\* --------------------------------------------------------------- Posting
\* Posting.assertAuthorIsUser(oid, user) throws unless the post exists and
\* user wrote it.
Posting_assertAuthorIsUser(id, u) == id \in DOMAIN posts /\ posts[id].author = u

getPosts(author) ==
  IF author = Empty \/ Authing_nameTaken(author)
  THEN resp' = "ok" /\ UNCHANGED <<dataVars, session>>
  ELSE Reject

createPost(s, content) ==
  IF Sessioning_isLoggedIn(s)
  THEN /\ OidsCreated < MaxOids
       /\ posts' = With(posts, nextPost + 1,
                        [author |-> Sessioning_getUser(s), content |-> content])
       /\ nextPost' = nextPost + 1
       /\ resp' = "ok"
       /\ UNCHANGED <<authVars, comments, nextComment, events, nextEvent,
                      friendVars, session>>
  ELSE Reject

\* updatePost without the Posting.assertAuthorIsUser(oid, user) line.
updatePost_noAuthorCheck(s, id, content) ==
  IF /\ Sessioning_isLoggedIn(s)
     /\ IsObjectId(id)
     /\ id \in DOMAIN posts
  THEN /\ posts' = [posts EXCEPT ![id].content = content]
       /\ resp' = "ok"
       /\ UNCHANGED <<authVars, nextPost, comments, nextComment, events,
                      nextEvent, friendVars, session>>
  ELSE Reject

updatePost(s, id, content) ==
  IF /\ Sessioning_isLoggedIn(s)
     /\ IsObjectId(id)
     /\ Posting_assertAuthorIsUser(id, Sessioning_getUser(s))
  THEN /\ posts' = [posts EXCEPT ![id].content = content]
       /\ resp' = "ok"
       /\ UNCHANGED <<authVars, nextPost, comments, nextComment, events,
                      nextEvent, friendVars, session>>
  ELSE Reject

deletePost(s, id) ==
  IF /\ Sessioning_isLoggedIn(s)
     /\ IsObjectId(id)
     /\ Posting_assertAuthorIsUser(id, Sessioning_getUser(s))
  THEN /\ posts' = Without(posts, id)
       /\ resp' = "ok"
       /\ UNCHANGED <<authVars, nextPost, comments, nextComment, events,
                      nextEvent, friendVars, session>>
  ELSE Reject

\* ------------------------------------------------------------ Commenting
Commenting_assertAuthorIsUser(id, u) ==
  id \in DOMAIN comments /\ comments[id].author = u

getComments(postId) ==
  IF IsObjectId(postId)
  THEN resp' = "ok" /\ UNCHANGED <<dataVars, session>>
  ELSE Reject

\* @Router.validate refuses an empty content before the handler runs.
createComment(s, postId, content) ==
  IF content # Empty /\ Sessioning_isLoggedIn(s) /\ IsObjectId(postId)
  THEN /\ OidsCreated < MaxOids
       /\ comments' = With(comments, nextComment + 1,
                           [post |-> postId, author |-> Sessioning_getUser(s),
                            content |-> content])
       /\ nextComment' = nextComment + 1
       /\ resp' = "ok"
       /\ UNCHANGED <<authVars, posts, nextPost, events, nextEvent,
                      friendVars, session>>
  ELSE Reject

updateComment(s, id, content) ==
  IF /\ Sessioning_isLoggedIn(s)
     /\ IsObjectId(id)
     /\ Commenting_assertAuthorIsUser(id, Sessioning_getUser(s))
  THEN /\ comments' = [comments EXCEPT ![id].content = content]
       /\ resp' = "ok"
       /\ UNCHANGED <<authVars, posts, nextPost, nextComment, events,
                      nextEvent, friendVars, session>>
  ELSE Reject

deleteComment(s, id) ==
  IF /\ Sessioning_isLoggedIn(s)
     /\ IsObjectId(id)
     /\ Commenting_assertAuthorIsUser(id, Sessioning_getUser(s))
  THEN /\ comments' = Without(comments, id)
       /\ resp' = "ok"
       /\ UNCHANGED <<authVars, posts, nextPost, nextComment, events,
                      nextEvent, friendVars, session>>
  ELSE Reject

\* ------------------------------------------------------------ Scheduling
Scheduling_assertUserIsOwner(id, u) == id \in DOMAIN events /\ events[id].owner = u

getEvents(s) ==
  IF Sessioning_isLoggedIn(s)
  THEN resp' = "ok" /\ UNCHANGED <<dataVars, session>>
  ELSE Reject

\* @Router.validate refuses an empty name; type is one of the enum's values.
createEvent(s, name, type) ==
  IF name # Empty /\ Sessioning_isLoggedIn(s)
  THEN /\ OidsCreated < MaxOids
       /\ events' = With(events, nextEvent + 1,
                         [owner |-> Sessioning_getUser(s), name |-> name,
                          type |-> type])
       /\ nextEvent' = nextEvent + 1
       /\ resp' = "ok"
       /\ UNCHANGED <<authVars, posts, nextPost, comments, nextComment,
                      friendVars, session>>
  ELSE Reject

updateEvent(s, id, name, type) ==
  IF /\ Sessioning_isLoggedIn(s)
     /\ IsObjectId(id)
     /\ Scheduling_assertUserIsOwner(id, Sessioning_getUser(s))
  THEN /\ events' = [events EXCEPT ![id].name = name, ![id].type = type]
       /\ resp' = "ok"
       /\ UNCHANGED <<authVars, posts, nextPost, comments, nextComment,
                      nextEvent, friendVars, session>>
  ELSE Reject

\* deleteEvent without the Sessioning.getUser(session) and owner lines.
deleteEvent_noSession(s, id) ==
  IF IsObjectId(id) /\ id \in DOMAIN events
  THEN /\ events' = Without(events, id)
       /\ resp' = "ok"
       /\ UNCHANGED <<authVars, posts, nextPost, comments, nextComment,
                      nextEvent, friendVars, session>>
  ELSE Reject

deleteEvent(s, id) ==
  IF /\ Sessioning_isLoggedIn(s)
     /\ IsObjectId(id)
     /\ Scheduling_assertUserIsOwner(id, Sessioning_getUser(s))
  THEN /\ events' = Without(events, id)
       /\ resp' = "ok"
       /\ UNCHANGED <<authVars, posts, nextPost, comments, nextComment,
                      nextEvent, friendVars, session>>
  ELSE Reject

\* ------------------------------------------------------------- Friending
\* Friending.getFriends(u) over the friendship documents fs: the other end of
\* every document that names u.
Friending_getFriends(u, fs) ==
  {f[2] : f \in {g \in fs : g[1] = u}} \cup {f[1] : f \in {g \in fs : g[2] = u}}

Friending_areFriends(u, v) == <<u, v>> \in friends \/ <<v, u>> \in friends

Friending_isPending(from, to, rs) ==
  \E r \in DOMAIN rs : rs[r] = [from |-> from, to |-> to, status |-> "pending"]

Friending_pendingId(from, to) ==
  CHOOSE r \in DOMAIN requests :
    requests[r] = [from |-> from, to |-> to, status |-> "pending"]

\* Friending.sendRequest throws when the two are friends already or a request
\* between them is pending in either direction.
Friending_canSendRequest(from, to) ==
  /\ ~Friending_areFriends(from, to)
  /\ ~Friending_isPending(from, to, requests)
  /\ ~Friending_isPending(to, from, requests)

\* Friending.acceptRequest(from, to): it throws when no request from `from` to
\* `to` is pending; the request becomes accepted and the friendship is stored.
Friending_acceptRequest(from, to) ==
  /\ requests' = [requests EXCEPT ![Friending_pendingId(from, to)].status = "accepted"]
  /\ friends' = friends \cup {<<from, to>>}
  /\ UNCHANGED nextRequest

\* Friending.rejectRequest(from, to): it throws when no request from `from` to
\* `to` is pending; the request becomes rejected.
Friending_rejectRequest(from, to) ==
  /\ requests' = [requests EXCEPT ![Friending_pendingId(from, to)].status = "rejected"]
  /\ UNCHANGED <<friends, nextRequest>>

\* GET /friends for user u over the state (friendships fs, accounts us).
FriendsResponse(u, fs, us) == Authing_idsToUsernames(Friending_getFriends(u, fs), us)

getFriends(s) ==
  IF Sessioning_isLoggedIn(s)
  THEN resp' = "ok" /\ UNCHANGED <<dataVars, session>>
  ELSE Reject

removeFriend(s, friend) ==
  IF /\ Sessioning_isLoggedIn(s)
     /\ Authing_nameTaken(friend)
     /\ Friending_areFriends(Sessioning_getUser(s), Authing_idOf(friend))
  THEN /\ friends' = friends \ {<<Sessioning_getUser(s), Authing_idOf(friend)>>,
                               <<Authing_idOf(friend), Sessioning_getUser(s)>>}
       /\ resp' = "ok"
       /\ UNCHANGED <<authVars, contentVars, requests, nextRequest, session>>
  ELSE Reject

getRequests(s) ==
  IF Sessioning_isLoggedIn(s)
  THEN resp' = "ok" /\ UNCHANGED <<dataVars, session>>
  ELSE Reject

\* sendFriendRequest that does not wait for the username to resolve: an
\* unknown name yields the null id 0 and the request is stored all the same.
sendFriendRequest_unresolved(s, to) ==
  IF /\ Sessioning_isLoggedIn(s)
     /\ Authing_nameTaken(to) => Friending_canSendRequest(Sessioning_getUser(s), Authing_idOf(to))
  THEN /\ OidsCreated < MaxOids
       /\ requests' = With(requests, nextRequest + 1,
                           [from |-> Sessioning_getUser(s),
                            to |-> IF Authing_nameTaken(to) THEN Authing_idOf(to) ELSE 0,
                            status |-> "pending"])
       /\ nextRequest' = nextRequest + 1
       /\ resp' = "ok"
       /\ UNCHANGED <<authVars, contentVars, friends, session>>
  ELSE Reject

sendFriendRequest(s, to) ==
  IF /\ Sessioning_isLoggedIn(s)
     /\ Authing_nameTaken(to)
     /\ Friending_canSendRequest(Sessioning_getUser(s), Authing_idOf(to))
  THEN /\ OidsCreated < MaxOids
       /\ requests' = With(requests, nextRequest + 1,
                           [from |-> Sessioning_getUser(s),
                            to |-> Authing_idOf(to), status |-> "pending"])
       /\ nextRequest' = nextRequest + 1
       /\ resp' = "ok"
       /\ UNCHANGED <<authVars, contentVars, friends, session>>
  ELSE Reject

removeFriendRequest(s, to) ==
  IF /\ Sessioning_isLoggedIn(s)
     /\ Authing_nameTaken(to)
     /\ Friending_isPending(Sessioning_getUser(s), Authing_idOf(to), requests)
  THEN /\ requests' = Without(requests,
                              Friending_pendingId(Sessioning_getUser(s), Authing_idOf(to)))
       /\ resp' = "ok"
       /\ UNCHANGED <<authVars, contentVars, friends, nextRequest, session>>
  ELSE Reject

\* acceptFriendRequest handing (user, fromOid) to Friending.acceptRequest.
acceptFriendRequest_swapped(s, from) ==
  IF /\ Sessioning_isLoggedIn(s)
     /\ Authing_nameTaken(from)
     /\ Friending_isPending(Sessioning_getUser(s), Authing_idOf(from), requests)
  THEN /\ Friending_acceptRequest(Sessioning_getUser(s), Authing_idOf(from))
       /\ resp' = "ok"
       /\ UNCHANGED <<authVars, contentVars, session>>
  ELSE Reject

acceptFriendRequest(s, from) ==
  IF /\ Sessioning_isLoggedIn(s)
     /\ Authing_nameTaken(from)
     /\ Friending_isPending(Authing_idOf(from), Sessioning_getUser(s), requests)
  THEN /\ Friending_acceptRequest(Authing_idOf(from), Sessioning_getUser(s))
       /\ resp' = "ok"
       /\ UNCHANGED <<authVars, contentVars, session>>
  ELSE Reject

\* rejectFriendRequest handing (user, fromOid) to Friending.rejectRequest.
rejectFriendRequest_swapped(s, from) ==
  IF /\ Sessioning_isLoggedIn(s)
     /\ Authing_nameTaken(from)
     /\ Friending_isPending(Sessioning_getUser(s), Authing_idOf(from), requests)
  THEN /\ Friending_rejectRequest(Sessioning_getUser(s), Authing_idOf(from))
       /\ resp' = "ok"
       /\ UNCHANGED <<authVars, contentVars, session>>
  ELSE Reject

rejectFriendRequest(s, from) ==
  IF /\ Sessioning_isLoggedIn(s)
     /\ Authing_nameTaken(from)
     /\ Friending_isPending(Authing_idOf(from), Sessioning_getUser(s), requests)
  THEN /\ Friending_rejectRequest(Authing_idOf(from), Sessioning_getUser(s))
       /\ resp' = "ok"
       /\ UNCHANGED <<authVars, contentVars, session>>
  ELSE Reject

\* ------------------------------------------------------------- the system
Next ==
  \/ \E s \in Sessions : getSessionUser(s)
  \/ getUsers
  \/ \E n \in Names \cup {Empty} : getUser(n)
  \/ \E s \in Sessions, n \in Names, p \in Passwords : createUser(s, n, p)
  \/ \E s \in Sessions, n \in Names : updateUsername(s, n)
  \/ \E s \in Sessions, p, q \in Passwords : updatePassword(s, p, q)
  \/ \E s \in Sessions : deleteUser(s)
  \/ \E s \in Sessions, n \in Names, p \in Passwords : logIn(s, n, p)
  \/ \E s \in Sessions : logOut(s)
  \/ \E n \in Names \cup {Empty} : getPosts(n)
  \/ \E s \in Sessions, c \in Contents : createPost(s, c)
  \/ \E s \in Sessions, id \in IdParams, c \in Contents : updatePost(s, id, c)
  \/ \E s \in Sessions, id \in IdParams : deletePost(s, id)
  \/ \E id \in PostIdParams : getComments(id)
  \/ \E s \in Sessions, id \in PostIdParams, c \in Contents \cup {Empty} :
       createComment(s, id, c)
  \/ \E s \in Sessions, id \in IdParams, c \in Contents : updateComment(s, id, c)
  \/ \E s \in Sessions, id \in IdParams : deleteComment(s, id)
  \/ \E s \in Sessions : getEvents(s)
  \/ \E s \in Sessions, n \in EventNames \cup {Empty}, t \in EventTypes :
       createEvent(s, n, t)
  \/ \E s \in Sessions, id \in IdParams, n \in EventNames, t \in EventTypes :
       updateEvent(s, id, n, t)
  \/ \E s \in Sessions, id \in IdParams : deleteEvent(s, id)
  \/ \E s \in Sessions : getFriends(s)
  \/ \E s \in Sessions, n \in Names : removeFriend(s, n)
  \/ \E s \in Sessions : getRequests(s)
  \/ \E s \in Sessions, n \in Names : sendFriendRequest(s, n)
  \/ \E s \in Sessions, n \in Names : removeFriendRequest(s, n)
  \/ \E s \in Sessions, n \in Names : acceptFriendRequest(s, n)
  \/ \E s \in Sessions, n \in Names : rejectFriendRequest(s, n)

Spec == Init /\ [][Next]_vars
\* ================================================================ claims
\* The session's user u and u's view of an item: u did not write it.
NotAuthor(s, coll, id, field) ==
  /\ Sessioning_isLoggedIn(s)
  /\ id \in DOMAIN coll
  /\ coll[id][field] # Sessioning_getUser(s)

\* C1: on every mutating route of a post, a comment or an event, a request by
\* a logged-in user who is not the author/owner of the targeted item is
\* rejected, and the collection the item lives in is left as it was.
C1_NonOwnerRejected ==
  [][\/ (resp' = "err" /\ posts' = posts /\ comments' = comments /\ events' = events)
     \/ \A s \in Sessions, id \in IdParams :
          /\ NotAuthor(s, posts, id, "author") =>
               /\ \A c \in Contents :
                    updatePost(s, id, c) => (resp' = "err" /\ posts' = posts)
               /\ deletePost(s, id) => (resp' = "err" /\ posts' = posts)
          /\ NotAuthor(s, comments, id, "author") =>
               /\ \A c \in Contents :
                    updateComment(s, id, c) => (resp' = "err" /\ comments' = comments)
               /\ deleteComment(s, id) => (resp' = "err" /\ comments' = comments)
          /\ NotAuthor(s, events, id, "owner") =>
               /\ \A n \in EventNames, t \in EventTypes :
                    updateEvent(s, id, n, t) => (resp' = "err" /\ events' = events)
               /\ deleteEvent(s, id) => (resp' = "err" /\ events' = events)
    ]_vars

\* A request was just rejected while a logged-in user faces a post that
\* someone else wrote.
C1_Witness ==
  /\ resp = "err"
  /\ \E s \in Sessions, id \in IdParams : NotAuthor(s, posts, id, "author")

\* C2: POST /users with a session that is bound to a user is rejected and
\* leaves the accounts unchanged.
C2_CreateUserNeedsLoggedOut ==
  [][\/ (resp' = "err" /\ users' = users /\ nextUser' = nextUser)
     \/ \A s \in Sessions, n \in Names, p \in Passwords :
          (Sessioning_isLoggedIn(s) /\ createUser(s, n, p)) =>
            (resp' = "err" /\ users' = users /\ nextUser' = nextUser)
    ]_vars

\* A request was just rejected while some session is logged in and a username
\* is still free (so only the session stands in the way of an account).
C2_Witness ==
  /\ resp = "err"
  /\ \E s \in Sessions : Sessioning_isLoggedIn(s)
  /\ \E n \in Names : ~Authing_nameTaken(n)
  /\ OidsCreated < MaxOids

\* C3 as stated: POST /users with a session bound to no user never adds an
\* account.
C3_LoggedOutNeverCreates ==
  [][\A s \in Sessions, n \in Names, p \in Passwords :
       (createUser(s, n, p) /\ Sessioning_isLoggedOut(s)) => users' = users
    ]_vars

\* C3 amended: POST /users adds an account exactly when the session is bound
\* to no user and the username is free, and then it adds the requested
\* account and no other; in particular a logged-in session never adds one.
C3_OnlyLoggedOutCreates ==
  [][IF users' = users
     THEN \A n \in Names : ~Authing_nameTaken(n) =>
            \A s \in Sessions : Sessioning_isLoggedOut(s) =>
              \A p \in Passwords : ~createUser(s, n, p)
     ELSE \A s \in Sessions, n \in Names, p \in Passwords :
            createUser(s, n, p) =>
              /\ Sessioning_isLoggedOut(s) /\ ~Authing_nameTaken(n)
              /\ DOMAIN users' = DOMAIN users \cup {nextUser'}
              /\ nextUser' \notin DOMAIN users
              /\ users'[nextUser'] = [username |-> n, password |-> p]
              /\ \A u \in DOMAIN users : users'[u] = users[u]
    ]_vars

\* An account was just created: the newest id is live, the request succeeded
\* and no session is bound.
C3_Witness ==
  /\ resp = "ok"
  /\ nextUser \in DOMAIN users
  /\ \A s \in Sessions : Sessioning_isLoggedOut(s)

\* A request of session s on one of the routes that take the acting user from
\* the session.
SessionDerivedRoute(s) ==
  \/ getSessionUser(s)
  \/ \E n \in Names : updateUsername(s, n)
  \/ \E p, q \in Passwords : updatePassword(s, p, q)
  \/ deleteUser(s)
  \/ \E c \in Contents : createPost(s, c)
  \/ \E id \in IdParams, c \in Contents : updatePost(s, id, c)
  \/ \E id \in IdParams : deletePost(s, id)
  \/ getFriends(s)
  \/ \E n \in Names : removeFriend(s, n)
  \/ getRequests(s)
  \/ \E n \in Names : sendFriendRequest(s, n)
  \/ \E n \in Names : removeFriendRequest(s, n)
  \/ \E n \in Names : acceptFriendRequest(s, n)
  \/ \E n \in Names : rejectFriendRequest(s, n)
  \/ \E id \in PostIdParams, c \in Contents \cup {Empty} : createComment(s, id, c)
  \/ \E id \in IdParams, c \in Contents : updateComment(s, id, c)
  \/ \E id \in IdParams : deleteComment(s, id)
  \/ getEvents(s)
  \/ \E n \in EventNames \cup {Empty}, t \in EventTypes : createEvent(s, n, t)
  \/ \E id \in IdParams, n \in EventNames, t \in EventTypes : updateEvent(s, id, n, t)
  \/ \E id \in IdParams : deleteEvent(s, id)

\* C4: a request of a logged-out session on a session-derived route is
\* rejected, and no user, post, comment, friendship, friend request or event
\* is created, changed or removed.
C4_LoggedOutRejected ==
  [][\/ (resp' = "err" /\ UNCHANGED dataVars)
     \/ \A s \in Sessions :
          (Sessioning_isLoggedOut(s) /\ SessionDerivedRoute(s)) =>
            (resp' = "err" /\ UNCHANGED dataVars)
    ]_vars

\* A request was just rejected while a session is logged out and there are an
\* account and an event the request could have touched.
C4_Witness ==
  /\ resp = "err"
  /\ \E s \in Sessions : Sessioning_isLoggedOut(s)
  /\ DOMAIN users # {}
  /\ DOMAIN events # {}

\* A and B are distinct existing users that are not friends; s is B's session
\* and `from` is A's username.
Strangers(s, from) ==
  /\ Sessioning_isLoggedIn(s)
  /\ Authing_exists(Sessioning_getUser(s))
  /\ Authing_nameTaken(from)
  /\ Authing_idOf(from) # Sessioning_getUser(s)
  /\ ~Friending_areFriends(Authing_idOf(from), Sessioning_getUser(s))

\* C5: a pending request from A to B gets stored only by A's POST
\* /friend/requests/B; and when such a request is pending between strangers
\* and B, logged in, puts /friend/accept/A, the request succeeds and GET
\* /friends lists B for A and A for B.
C5_AcceptMakesMutualFriends ==
  [][/\ \A r \in DOMAIN requests' \ DOMAIN requests :
          /\ requests'[r].status = "pending"
          /\ \E s \in Sessions, n \in Names :
               /\ Sessioning_isLoggedIn(s) /\ Authing_nameTaken(n)
               /\ requests'[r].from = Sessioning_getUser(s)
               /\ requests'[r].to = Authing_idOf(n)
               /\ sendFriendRequest(s, n)
     /\ (\E r \in DOMAIN requests : requests[r].status = "pending") =>
          \A s \in Sessions : Sessioning_isLoggedIn(s) =>
            \A n \in Names :
              ( /\ Strangers(s, n)
                /\ Friending_isPending(Authing_idOf(n), Sessioning_getUser(s), requests) )
              => \/ /\ resp' = "ok"
                    /\ users[Sessioning_getUser(s)].username
                         \in FriendsResponse(Authing_idOf(n), friends', users')
                    /\ n \in FriendsResponse(Sessioning_getUser(s), friends', users')
                 \/ ~acceptFriendRequest(s, n)
    ]_vars

\* A request was accepted by the last request: two live users, an accepted
\* request between them, and each is in the other's GET /friends.
C5_Witness ==
  /\ resp = "ok"
  /\ \E r \in DOMAIN requests :
       /\ requests[r].status = "accepted"
       /\ requests[r].from # requests[r].to
       /\ requests[r].from \in DOMAIN users
       /\ requests[r].to \in DOMAIN users
       /\ users[requests[r].to].username
            \in FriendsResponse(requests[r].from, friends, users)
       /\ users[requests[r].from].username
            \in FriendsResponse(requests[r].to, friends, users)

\* C6: when a request from A to B is pending between strangers and B, logged
\* in, puts /friend/reject/A, the request succeeds, neither lists the other in
\* GET /friends, and no request from A to B is pending any more.
C6_RejectLeavesNothing ==
  [][(\E r \in DOMAIN requests : requests[r].status = "pending") =>
       \A s \in Sessions : Sessioning_isLoggedIn(s) =>
         \A n \in Names :
           ( /\ Strangers(s, n)
             /\ Friending_isPending(Authing_idOf(n), Sessioning_getUser(s), requests) )
           => \/ /\ resp' = "ok"
                 /\ Sessioning_getUser(s) \notin Friending_getFriends(Authing_idOf(n), friends')
                 /\ Authing_idOf(n) \notin Friending_getFriends(Sessioning_getUser(s), friends')
                 /\ ~Friending_isPending(Authing_idOf(n), Sessioning_getUser(s), requests')
              \/ ~rejectFriendRequest(s, n)
    ]_vars

\* A request was rejected by the last request: two live users, a rejected
\* request between them, and nothing else.
C6_Witness ==
  /\ resp = "ok"
  /\ friends = {}
  /\ \E r \in DOMAIN requests :
       /\ requests[r].status = "rejected"
       /\ requests[r].from # requests[r].to
       /\ requests[r].from \in DOMAIN users
       /\ requests[r].to \in DOMAIN users
       /\ ~Friending_isPending(requests[r].from, requests[r].to, requests)

\* C7: a successful DELETE /users of a logged-in session removes the account
\* of the session's user, removes or changes no other account, and leaves
\* the session logged out.
C7_DeleteUserDeletesSelf ==
  [][\A s \in Sessions :
       (resp' = "ok" /\ Sessioning_isLoggedIn(s) /\ deleteUser(s)) =>
         /\ Sessioning_getUser(s) \notin DOMAIN users'
         /\ DOMAIN users' = DOMAIN users \ {Sessioning_getUser(s)}
         /\ \A u \in DOMAIN users' : users'[u] = users[u]
         /\ session'[s] = {}
    ]_vars

\* An account was just deleted while another one lives on: the request
\* succeeded, a handed-out id is gone, and a session is logged out.
C7_Witness ==
  /\ resp = "ok"
  /\ \E u \in 1..nextUser : u \notin DOMAIN users
  /\ DOMAIN users # {}
  /\ \E s \in Sessions : Sessioning_isLoggedOut(s)

\* A request of session s on one of the five routes that take a username in
\* the path and hand its id to Friending.
FriendNameRoute(s, n) ==
  \/ removeFriend(s, n)
  \/ sendFriendRequest(s, n)
  \/ removeFriendRequest(s, n)
  \/ acceptFriendRequest(s, n)
  \/ rejectFriendRequest(s, n)

\* C8: on the friend-removal and friend-request routes a username that names
\* no existing user makes the request fail, and no friendship or friend
\* request is created, changed or removed.
C8_UnknownUsernameFails ==
  [][\/ (resp' = "err" /\ UNCHANGED friendVars)
     \/ \A s \in Sessions, n \in Names :
          (~Authing_nameTaken(n) /\ FriendNameRoute(s, n)) =>
            (resp' = "err" /\ UNCHANGED friendVars)
    ]_vars

\* A request was just rejected while a logged-in, existing user could have
\* filed a friend request but for a username that names nobody.
C8_Witness ==
  /\ resp = "err"
  /\ \E s \in Sessions :
       Sessioning_isLoggedIn(s) /\ Authing_exists(Sessioning_getUser(s))
  /\ \E n \in Names : ~Authing_nameTaken(n)
  /\ OidsCreated < MaxOids

\* A request on a route other than POST /login, POST /logout, DELETE /users.
OtherRoute ==
  \/ getUsers
  \/ \E n \in Names \cup {Empty} : getUser(n)
  \/ \E s \in Sessions, n \in Names, p \in Passwords : createUser(s, n, p)
  \/ \E n \in Names \cup {Empty} : getPosts(n)
  \/ \E id \in PostIdParams : getComments(id)
  \/ \E s \in Sessions :
       \/ getSessionUser(s)
       \/ \E n \in Names : updateUsername(s, n)
       \/ \E p, q \in Passwords : updatePassword(s, p, q)
       \/ \E c \in Contents : createPost(s, c)
       \/ \E id \in IdParams, c \in Contents : updatePost(s, id, c)
       \/ \E id \in IdParams : deletePost(s, id)
       \/ getFriends(s)
       \/ \E n \in Names : removeFriend(s, n)
       \/ getRequests(s)
       \/ \E n \in Names : sendFriendRequest(s, n)
       \/ \E n \in Names : removeFriendRequest(s, n)
       \/ \E n \in Names : acceptFriendRequest(s, n)
       \/ \E n \in Names : rejectFriendRequest(s, n)
       \/ \E id \in PostIdParams, c \in Contents \cup {Empty} : createComment(s, id, c)
       \/ \E id \in IdParams, c \in Contents : updateComment(s, id, c)
       \/ \E id \in IdParams : deleteComment(s, id)
       \/ getEvents(s)
       \/ \E n \in EventNames \cup {Empty}, t \in EventTypes : createEvent(s, n, t)
       \/ \E id \in IdParams, n \in EventNames, t \in EventTypes : updateEvent(s, id, n, t)
       \/ \E id \in IdParams : deleteEvent(s, id)

\* C9: a session's binding changes only in a POST /login, POST /logout or
\* DELETE /users request of that session: a login leaves it bound to the user
\* its credentials authenticate (credentials that authenticate nobody change
\* no binding), a logout or an account deletion leaves it unbound, and every
\* other route leaves every binding as it was.
C9_SessionChangesOnlyByLoginLogoutDelete ==
  [][\/ session' = session
     \/ /\ ~OtherRoute
        /\ \A n \in Names, p \in Passwords :
             ~Authing_authenticates(n, p) => \A s \in Sessions : ~logIn(s, n, p)
        /\ \A s \in Sessions : session'[s] # session[s] =>
             \/ /\ session'[s] = {}
                /\ logOut(s) \/ deleteUser(s)
             \/ \E n \in Names, p \in Passwords :
                  /\ Authing_authenticates(n, p)
                  /\ session'[s] = {Authing_idOf(n)}
                  /\ logIn(s, n, p)
    ]_vars

\* A login just bound a session: the request succeeded and a session is bound
\* to a live user while another session is bound to someone else or to nobody.
C9_Witness ==
  /\ resp = "ok"
  /\ \E s, t \in Sessions :
       /\ Sessioning_isLoggedIn(s)
       /\ Authing_exists(Sessioning_getUser(s))
       /\ session[t] # session[s]

\* C10 as stated: DELETE /users logs a session out only if the account was
\* actually deleted (a failed Authing.delete leaves the session bound).
C10_LogoutOnlyIfDeleted ==
  [][\A s \in Sessions :
       (Sessioning_isLoggedIn(s) /\ session'[s] = {} /\ deleteUser(s)) =>
         (resp' = "ok" /\ Sessioning_getUser(s) \notin DOMAIN users')
    ]_vars
====
